---- MODULE Spec2Model ----
(***************************************************************************)
(* Model of the pooled serverless handlers api/generate.js and             *)
(* api/describe.js: a credential pool parsed from the environment, a       *)
(* module-level rotation cursor (currentKeyIndex) per handler module, and  *)
(* the retry loop of each handler.                                         *)
(*                                                                         *)
(* JavaScript runs each handler to its next `await` without interruption,  *)
(* so one action is the code between two suspension points: HandlerStart   *)
(* runs from the entry of handler() to the first awaited upstream call (or *)
(* to a return), UpstreamSettles runs from the settlement of the awaited   *)
(* call to the next awaited call (or to a return).                         *)
(*                                                                         *)
(* Strings that the code inspects are sequences: an environment value is a *)
(* sequence of characters, an error message is a sequence of words.        *)
(*                                                                         *)
(* The browser client (index.tsx) is modelled with the same grain: the     *)
(* React state of App and the activations of generateImage and             *)
(* handleDescribe, one action per stretch of code between two awaits.      *)
(***************************************************************************)
EXTENDS Integers, Sequences, FiniteSets, TLC

VARIABLES env, apiKeys, currentKeyIndex, inv, upstreamCalls, handedOut

\* Browser client (index.tsx, component App): React state, and the
\* activations of its two asynchronous click handlers
VARIABLES prompt, mainImage, styleImage, generatedImage, isLoading, error,
          activeStyle, isDescribeLoading, generateImage, handleDescribe

clientVars == <<prompt, mainImage, styleImage, generatedImage, isLoading, error,
                activeStyle, isDescribeLoading, generateImage, handleDescribe>>

serverVars == <<env, apiKeys, currentKeyIndex, inv, upstreamCalls, handedOut>>

vars == <<serverVars, clientVars>>

(***************************************************************************)
(* Bounds                                                                  *)
(***************************************************************************)
MaxKeys == 3
MaxInv == 2
\* invocations of a run of requests served one after another
MaxRound == 3
\* length of the configuration strings the pool is parsed from
MaxEnvLen == 5
\* activations of each click handler of the client
MaxRuns == 2

Handlers == {"generate", "describe"}
Invocations == 1..MaxInv
Runs == 1..MaxRuns

(***************************************************************************)
(* JavaScript values                                                       *)
(***************************************************************************)
\* An environment variable is unset or holds a string (sequence of characters).
Unset == [set |-> FALSE, val |-> <<>>]
EnvStr(s) == [set |-> TRUE, val |-> s]

\* null / undefined where the code expects a string
Null == <<"<null>">>
Undefined == <<"<undefined>">>

\* JavaScript truthiness of a string-or-null value
Truthy(v) == v # Null /\ v # Undefined /\ v # <<>>

(***************************************************************************)
(* Credential pool: (API_KEYS_POOL || API_KEY || '').split(',')            *)
(*                     .map(k => k.trim()).filter(Boolean)                 *)
(***************************************************************************)
RECURSIVE Split(_, _)
Split(s, sep) ==
  IF \A k \in 1..Len(s) : s[k] # sep
  THEN <<s>>
  ELSE LET p == CHOOSE k \in 1..Len(s) :
                  s[k] = sep /\ \A j \in 1..(k - 1) : s[j] # sep
       IN <<SubSeq(s, 1, p - 1)>> \o Split(SubSeq(s, p + 1, Len(s)), sep)

\* White space as String.prototype.trim() sees it (blank, tab, line feed).
WhiteSpace == {" ", "\t", "\n"}

\* Mutant: only the start of the entry is trimmed.
RECURSIVE TrimStartOnly(_)
TrimStartOnly(s) ==
  IF s = <<>> THEN s
  ELSE IF Head(s) \in WhiteSpace THEN TrimStartOnly(Tail(s))
  ELSE s

RECURSIVE Trim(_)
Trim(s) ==
  IF s = <<>> THEN s
  ELSE IF Head(s) \in WhiteSpace THEN Trim(Tail(s))
  ELSE IF s[Len(s)] \in WhiteSpace THEN Trim(SubSeq(s, 1, Len(s) - 1))
  ELSE s

RECURSIVE FilterBoolean(_)
FilterBoolean(list) ==
  IF list = <<>> THEN <<>>
  ELSE IF Truthy(Head(list)) THEN <<Head(list)>> \o FilterBoolean(Tail(list))
  ELSE FilterBoolean(Tail(list))

\* Mutant: API_KEY is also used when API_KEYS_POOL holds no credential.
PoolSourceFallbackWhenBlank(e) ==
  IF e.API_KEYS_POOL.set /\ \E k \in DOMAIN e.API_KEYS_POOL.val :
                              e.API_KEYS_POOL.val[k] \notin WhiteSpace \cup {","}
  THEN e.API_KEYS_POOL.val
  ELSE IF e.API_KEY.set /\ e.API_KEY.val # <<>> THEN e.API_KEY.val
  ELSE <<>>

\* process.env.API_KEYS_POOL || process.env.API_KEY || ''
PoolSource(e) ==
  IF e.API_KEYS_POOL.set /\ e.API_KEYS_POOL.val # <<>> THEN e.API_KEYS_POOL.val
  ELSE IF e.API_KEY.set /\ e.API_KEY.val # <<>> THEN e.API_KEY.val
  ELSE <<>>

ParsePool(e) ==
  LET pieces == Split(PoolSource(e), ",")
  IN FilterBoolean([k \in 1..Len(pieces) |-> Trim(pieces[k])])

(***************************************************************************)
(* Environments of the model: pools of 0..MaxKeys one-letter credentials,  *)
(* written with and without blanks, and the single-credential fallback.    *)
(***************************************************************************)
Letters == <<"a", "b", "c", "d", "e", "f">>

RECURSIVE JoinLetters(_)
JoinLetters(n) ==
  IF n = 0 THEN <<>>
  ELSE IF n = 1 THEN <<Letters[1]>>
  ELSE JoinLetters(n - 1) \o <<",", " ", Letters[n]>>

Environments ==
  {[API_KEYS_POOL |-> EnvStr(JoinLetters(n)), API_KEY |-> Unset] : n \in 1..MaxKeys}
  \cup {[API_KEYS_POOL |-> Unset, API_KEY |-> Unset],
        [API_KEYS_POOL |-> Unset, API_KEY |-> EnvStr(<<"z">>)],
        [API_KEYS_POOL |-> EnvStr(<<" ", ",">>), API_KEY |-> EnvStr(<<"z">>)]}

\* Every value of API_KEYS_POOL up to MaxEnvLen characters of credentials,
\* commas and white space, with API_KEY unset, empty or a credential.
EnvChars == {"a", "b", ",", " ", "\t"}

EnvStrings == UNION {[1..len -> EnvChars] : len \in 0..MaxEnvLen}

AllEnvironments ==
  {[API_KEYS_POOL |-> pool, API_KEY |-> key] :
     pool \in {Unset} \cup {EnvStr(s) : s \in EnvStrings},
     key \in {Unset, EnvStr(<<>>), EnvStr(<<"z">>)}}

(***************************************************************************)
(* Requests                                                                *)
(***************************************************************************)
Methods == {"POST", "GET"}

\* req.body of /api/generate: prompt is a string or undefined; imageParts is
\* undefined, a non-array value, or an array.  req.body of /api/describe:
\* imagePart is undefined or an object.  Non-string values carry their type.
UndefinedValue == [type |-> "undefined", items |-> 0]
ObjectValue == [type |-> "object", items |-> 0]
ArrayValue(n) == [type |-> "array", items |-> n]

GenerateBodies ==
  {[prompt |-> <<"p">>, imageParts |-> ArrayValue(1)],
   [prompt |-> Undefined, imageParts |-> ArrayValue(1)],
   [prompt |-> <<>>, imageParts |-> ArrayValue(1)],
   [prompt |-> <<"p">>, imageParts |-> UndefinedValue],
   [prompt |-> <<"p">>, imageParts |-> ObjectValue],
   [prompt |-> <<"p">>, imageParts |-> ArrayValue(0)]}

DescribeBodies ==
  {[imagePart |-> ObjectValue], [imagePart |-> UndefinedValue]}

Bodies(h) == IF h = "generate" THEN GenerateBodies ELSE DescribeBodies

\* Mutant: an empty imageParts array passes the check.
GenerateFieldsMissingEmptyArrayPasses(body) ==
  \/ ~Truthy(body.prompt)
  \/ body.imageParts.type = "undefined"
  \/ body.imageParts.type # "array"

\* generate.js: !prompt || !imageParts || !Array.isArray(imageParts) || imageParts.length === 0
\* (objects and arrays, also empty ones, are truthy)
GenerateFieldsMissing(body) ==
  \/ ~Truthy(body.prompt)
  \/ body.imageParts.type = "undefined"
  \/ body.imageParts.type # "array"
  \/ body.imageParts.items = 0

\* describe.js: !imagePart
DescribeFieldsMissing(body) == body.imagePart.type = "undefined"

FieldsMissing(h, body) ==
  IF h = "generate" THEN GenerateFieldsMissing(body) ELSE DescribeFieldsMissing(body)

(***************************************************************************)
(* Error messages: sequences of words.  toLowerCase and includes work on   *)
(* words, so a needle matches a run of consecutive words.                  *)
(***************************************************************************)
LowerWord(w) ==
  CASE w = "Resource" -> "resource"
    [] w = "RESOURCE" -> "resource"
    [] w = "Exhausted" -> "exhausted"
    [] w = "API" -> "api"
    [] w = "Permission" -> "permission"
    [] w = "PERMISSION" -> "permission"
    [] w = "DENIED" -> "denied"
    [] w = "Service" -> "service"
    [] w = "Unavailable" -> "unavailable"
    [] w = "Too" -> "too"
    [] w = "Many" -> "many"
    [] w = "Requests" -> "requests"
    [] w = "Internal" -> "internal"
    [] w = "Empty" -> "empty"
    [] w = "No" -> "no"
    [] w = "The" -> "the"
    [] OTHER -> w

toLowerCase(m) == [k \in 1..Len(m) |-> LowerWord(m[k])]

includes(m, needle) ==
  \E k \in 0..(Len(m) - Len(needle)) : SubSeq(m, k + 1, k + Len(needle)) = needle

\* Messages the upstream SDK call can reject with (error.message), among them
\* an error without a message.
UpstreamMessages ==
  {<<"429", "Too", "Many", "Requests">>,
   <<"Resource", "has", "been", "exhausted">>,
   <<"RESOURCE", "has", "been", "Exhausted", "429">>,
   <<"API", "key", "not", "valid">>,
   <<"PERMISSION", "DENIED">>,
   <<"500", "Internal", "error">>,
   <<"503", "Service", "Unavailable">>,
   <<"Service", "Unavailable">>,
   <<"API", "key", "not", "valid", "429">>,
   <<"fetch", "failed">>,
   <<>>,
   Undefined}

\* Messages of the errors the handlers throw themselves inside the try block
NoResponseMessage ==
  <<"No", "response", "from", "the", "API.", "The", "request", "might", "have", "been", "blocked.">>
EmptyResponseMessage == <<"Empty", "response", "from", "API.">>

(***************************************************************************)
(* Upstream call: ai.models.generateContent(...) either rejects with an    *)
(* error or fulfils with a response.                                       *)
(***************************************************************************)
NoInlineData == [present |-> FALSE, data |-> "", mimeType |-> ""]
InlineData(d, m) == [present |-> TRUE, data |-> d, mimeType |-> m]
ImagePart(d, m) == [inlineData |-> InlineData(d, m), text |-> ""]
TextPart(t) == [inlineData |-> NoInlineData, text |-> t]
Candidate(reason, parts) == [finishReason |-> reason, parts |-> parts]

\* Responses of the image model (response.candidates)
GenerateResponses ==
  {[candidates |-> <<>>],
   [candidates |-> <<Candidate("SAFETY", <<>>)>>],
   [candidates |-> <<Candidate("SAFETY", <<ImagePart("img1", "image/png")>>)>>],
   [candidates |-> <<Candidate("STOP", <<ImagePart("img1", "image/png")>>)>>],
   [candidates |-> <<Candidate("STOP", <<TextPart("here"), ImagePart("img2", "image/jpeg")>>)>>],
   [candidates |-> <<Candidate("STOP", <<TextPart("sorry")>>)>>],
   [candidates |-> <<Candidate("STOP", <<ImagePart("", "image/png")>>)>>],
   [candidates |-> <<Candidate("STOP", <<>>)>>]}

\* Responses of the text model (response.text)
DescribeResponses == {[text |-> "a photo"], [text |-> ""]}

NoResponse == [none |-> TRUE]

Rejects(m) == [kind |-> "rejects", message |-> m, response |-> NoResponse]
Fulfils(r) == [kind |-> "fulfils", message |-> <<>>, response |-> r]

UpstreamOutcomes(h) ==
  {Rejects(m) : m \in UpstreamMessages}
  \cup {Fulfils(r) : r \in IF h = "generate" THEN GenerateResponses ELSE DescribeResponses}

(***************************************************************************)
(* HTTP responses: res.status(s).json(body)                                *)
(***************************************************************************)
ErrorBody(e) == [error |-> e]
ImageBody(b, m) == [base64 |-> b, mimeType |-> m]
DescriptionBody(d) == [description |-> d]

Return(status, body) == [t |-> "return", status |-> status, body |-> body, message |-> <<>>]
Throw(m) == [t |-> "throw", status |-> 0, body |-> ErrorBody(<<>>), message |-> m]
Continue == [t |-> "continue", status |-> 0, body |-> ErrorBody(<<>>), message |-> <<>>]

(***************************************************************************)
(* generate.js, body of the try block after the awaited call               *)
(***************************************************************************)
\* Mutant: the mime type of the image is taken to be image/png.
RECURSIVE ScanPartsMimeTypePng(_, _)
ScanPartsMimeTypePng(parts, responseText) ==
  IF parts = <<>> THEN [found |-> FALSE, data |-> "", mimeType |-> "", text |-> responseText]
  ELSE LET part == Head(parts)
       IN IF part.inlineData.present /\ part.inlineData.data # ""
          THEN [found |-> TRUE, data |-> part.inlineData.data,
                mimeType |-> "image/png", text |-> responseText]
          ELSE IF part.text # ""
          THEN ScanPartsMimeTypePng(Tail(parts), responseText \o part.text)
          ELSE ScanPartsMimeTypePng(Tail(parts), responseText)

\* for (const part of candidate.content?.parts || []) { ... }
RECURSIVE ScanParts(_, _)
ScanParts(parts, responseText) ==
  IF parts = <<>> THEN [found |-> FALSE, data |-> "", mimeType |-> "", text |-> responseText]
  ELSE LET part == Head(parts)
       IN IF part.inlineData.present /\ part.inlineData.data # ""
          THEN [found |-> TRUE, data |-> part.inlineData.data,
                mimeType |-> part.inlineData.mimeType, text |-> responseText]
          ELSE IF part.text # ""
          THEN ScanParts(Tail(parts), responseText \o part.text)
          ELSE ScanParts(Tail(parts), responseText)

\* Mutant: a response with text and no image also counts as a success.
GenerateTryTextIsSuccess(outcome) ==
  IF outcome.kind = "rejects" THEN Throw(outcome.message)
  ELSE IF outcome.response.candidates = <<>> THEN Throw(NoResponseMessage)
  ELSE LET candidate == outcome.response.candidates[1]
           scan == ScanParts(candidate.parts, "")
       IN IF candidate.finishReason = "SAFETY"
          THEN Return(400, ErrorBody(<<"Image generation failed.">>))
          ELSE IF scan.found \/ scan.text # ""
          THEN Return(200, ImageBody(scan.data, scan.mimeType))
          ELSE Return(500, ErrorBody(<<"API did not return an image.">>))

GenerateTry(outcome) ==
  IF outcome.kind = "rejects" THEN Throw(outcome.message)
  ELSE IF outcome.response.candidates = <<>> THEN Throw(NoResponseMessage)
  ELSE LET candidate == outcome.response.candidates[1]
           scan == ScanParts(candidate.parts, "")
       IN IF candidate.finishReason = "SAFETY"
          THEN Return(400, ErrorBody(<<"Image generation failed.">>))
          ELSE IF scan.found
          THEN Return(200, ImageBody(scan.data, scan.mimeType))
          ELSE IF scan.text # ""
          THEN Return(500, ErrorBody(<<"API returned text instead of an image:", scan.text>>))
          ELSE Return(500, ErrorBody(<<"API did not return an image.">>))

\* Mutant: every error with a message counts as a rate-limit error.
GenerateIsRateLimitErrorAnyMessage(m) == Truthy(m)

\* error.message && (error.message.includes('429')
\*   || error.message.toLowerCase().includes('resource has been exhausted'))
GenerateIsRateLimitError(m) ==
  /\ Truthy(m)
  /\ \/ includes(m, <<"429">>)
     \/ includes(toLowerCase(m), <<"resource", "has", "been", "exhausted">>)

\* Mutant: the last-key test compares with totalKeys instead of totalKeys - 1.
GenerateCatchLastTestOffByOne(m, i, totalKeys) ==
  IF GenerateIsRateLimitError(m)
  THEN IF i = totalKeys
       THEN Return(429, ErrorBody(<<"All API keys are currently rate-limited.">>))
       ELSE Continue
  ELSE Return(500, ErrorBody(<<"Failed to generate content:">>
                     \o (IF Truthy(m) THEN m ELSE <<"An unknown error occurred">>)))

\* Mutant: every error is retried with the next key.
GenerateCatchRetriesEveryError(m, i, totalKeys) ==
  IF i = totalKeys - 1
  THEN IF GenerateIsRateLimitError(m)
       THEN Return(429, ErrorBody(<<"All API keys are currently rate-limited.">>))
       ELSE Return(500, ErrorBody(<<"Failed to generate content:">>
                          \o (IF Truthy(m) THEN m ELSE <<"An unknown error occurred">>)))
  ELSE Continue

\* Mutant: the handler gives up one key early.
GenerateCatchGivesUpEarly(m, i, totalKeys) ==
  IF GenerateIsRateLimitError(m)
  THEN IF i >= totalKeys - 2
       THEN Return(429, ErrorBody(<<"All API keys are currently rate-limited.">>))
       ELSE Continue
  ELSE Return(500, ErrorBody(<<"Failed to generate content:">>
                     \o (IF Truthy(m) THEN m ELSE <<"An unknown error occurred">>)))

GenerateCatch(m, i, totalKeys) ==
  IF GenerateIsRateLimitError(m)
  THEN IF i = totalKeys - 1
       THEN Return(429, ErrorBody(<<"All API keys are currently rate-limited.">>))
       ELSE Continue
  ELSE Return(500, ErrorBody(<<"Failed to generate content:">>
                     \o (IF Truthy(m) THEN m ELSE <<"An unknown error occurred">>)))

(***************************************************************************)
(* describe.js, body of the try block after the awaited call               *)
(***************************************************************************)
\* Mutant: an empty description is thrown as a retryable error.
DescribeTryEmptyRetried(outcome) ==
  IF outcome.kind = "rejects" THEN Throw(outcome.message)
  ELSE IF outcome.response.text # ""
  THEN Return(200, DescriptionBody(outcome.response.text))
  ELSE Throw(<<"503">> \o EmptyResponseMessage)

DescribeTry(outcome) ==
  IF outcome.kind = "rejects" THEN Throw(outcome.message)
  ELSE IF outcome.response.text # ""
  THEN Return(200, DescriptionBody(outcome.response.text))
  ELSE Throw(EmptyResponseMessage)

\* const errorMessage = error.message?.toLowerCase() || ''
DescribeErrorMessage(m) == IF Truthy(m) THEN toLowerCase(m) ELSE <<>>

DescribeIsRateLimitError(m) ==
  \/ includes(DescribeErrorMessage(m), <<"429">>)
  \/ includes(DescribeErrorMessage(m), <<"resource", "has", "been", "exhausted">>)

\* Mutant: invalid-key errors are not recognised.
DescribeIsInvalidApiKeyErrorNever(m) == FALSE

DescribeIsInvalidApiKeyError(m) ==
  \/ includes(DescribeErrorMessage(m), <<"api", "key", "not", "valid">>)
  \/ includes(DescribeErrorMessage(m), <<"permission", "denied">>)

DescribeIsGoogleServerError(m) ==
  \/ includes(DescribeErrorMessage(m), <<"500">>)
  \/ includes(DescribeErrorMessage(m), <<"503">>)
  \/ includes(DescribeErrorMessage(m), <<"service", "unavailable">>)

\* Mutant: describe goes on to the next key after every error.
DescribeCatchRetriesEveryError(m, i, totalKeys) ==
  IF i = totalKeys - 1
  THEN Return(429, ErrorBody(<<"All API keys are currently busy or invalid.">>))
  ELSE Continue

DescribeCatch(m, i, totalKeys) ==
  IF DescribeIsRateLimitError(m) \/ DescribeIsInvalidApiKeyError(m) \/ DescribeIsGoogleServerError(m)
  THEN IF i = totalKeys - 1
       THEN Return(429, ErrorBody(<<"All API keys are currently busy or invalid.">>))
       ELSE Continue
  ELSE Return(500, ErrorBody(<<"Failed to generate description:">> \o m))

(***************************************************************************)
(* One iteration of the retry loop from the settlement of the awaited call *)
(* to its return or to the end of the loop body.                           *)
(***************************************************************************)
TryBlock(h, outcome) ==
  IF h = "generate" THEN GenerateTry(outcome) ELSE DescribeTry(outcome)

CatchBlock(h, m, i, totalKeys) ==
  IF h = "generate" THEN GenerateCatch(m, i, totalKeys) ELSE DescribeCatch(m, i, totalKeys)

\* Mutant: a success does not leave the loop unless it is the last iteration.
IterationContinuesAfterSuccess(h, outcome, i, totalKeys) ==
  LET r == TryBlock(h, outcome)
  IN IF r.t = "throw" THEN CatchBlock(h, r.message, i, totalKeys)
     ELSE IF r.status = 200 /\ i < totalKeys - 1 THEN Continue
     ELSE r

Iteration(h, outcome, i, totalKeys) ==
  LET r == TryBlock(h, outcome)
  IN IF r.t = "throw" THEN CatchBlock(h, r.message, i, totalKeys) ELSE r

(***************************************************************************)
(* Rotation cursor                                                         *)
(***************************************************************************)
\* apiKeys[currentKeyIndex]; an index outside the array reads undefined
\* Mutant: the pool is indexed from one.
KeyAtFromOne(keys, index) == IF index \in DOMAIN keys THEN keys[index] ELSE Undefined

KeyAt(keys, index) == IF index + 1 \in DOMAIN keys THEN keys[index + 1] ELSE Undefined

\* Mutant: the cursor is not advanced.
getNextApiKeyNoAdvance(keys, index) ==
  IF Len(keys) = 0 THEN [key |-> Null, index |-> index]
  ELSE [key |-> KeyAt(keys, index), index |-> index]

\* Mutant: the cursor is advanced without wrapping.
getNextApiKeyNoWrap(keys, index) ==
  IF Len(keys) = 0 THEN [key |-> Null, index |-> index]
  ELSE [key |-> KeyAt(keys, index), index |-> index + 1]

\* Mutant: the cursor is advanced before the key is read.
getNextApiKeyAdvanceFirst(keys, index) ==
  IF Len(keys) = 0 THEN [key |-> Null, index |-> index]
  ELSE [key |-> KeyAt(keys, (index + 1) % Len(keys)), index |-> (index + 1) % Len(keys)]

\* Returns the key and the new value of currentKeyIndex.
getNextApiKey(keys, index) ==
  IF Len(keys) = 0 THEN [key |-> Null, index |-> index]
  ELSE [key |-> KeyAt(keys, index), index |-> (index + 1) % Len(keys)]

\* for (let i = ...; i < totalKeys; i++) { const apiKey = getNextApiKey();
\*   if (!apiKey) continue; ... await ai.models.generateContent(...)
\* run from the loop test with counter i to the awaited call or the loop exit.
RECURSIVE LoopFrom(_, _, _, _)
LoopFrom(keys, index, i, totalKeys) ==
  IF i < totalKeys
  THEN LET g == getNextApiKey(keys, index)
       IN IF ~Truthy(g.key)
          THEN LoopFrom(keys, g.index, i + 1, totalKeys)
          ELSE [awaiting |-> TRUE, i |-> i, apiKey |-> g.key, index |-> g.index, pos |-> index]
  ELSE [awaiting |-> FALSE, i |-> i, apiKey |-> Null, index |-> index, pos |-> index]

(***************************************************************************)
(* Invocations of the handlers                                             *)
(***************************************************************************)
NoBody == [none |-> TRUE]

\* History of an invocation besides its program state: `tried` lists its
\* upstream calls, `received` is the upstream response it got last (NoPayload
\* when that response carried no payload), `abandonedAt` is 0 while
\* the caller waits and else the number of the call during which the caller
\* gave up.
NoPayload == [none |-> TRUE]

IdleInvocation ==
  [pc |-> "idle", h |-> "generate", method |-> "POST", body |-> NoBody,
   loop |-> FALSE, i |-> 0, totalKeys |-> 0, apiKey |-> Null,
   tried |-> <<>>, sent |-> <<>>, received |-> NoPayload, abandonedAt |-> 0]

\* What an upstream call did, as recorded in the history of an invocation:
\* "pending" while in flight, then the kind of its outcome.
RateLimitSignal(m) ==
  Truthy(m) /\ (includes(m, <<"429">>)
                \/ includes(toLowerCase(m), <<"resource", "has", "been", "exhausted">>))

InvalidKeySignal(m) ==
  Truthy(m) /\ (includes(toLowerCase(m), <<"api", "key", "not", "valid">>)
                \/ includes(toLowerCase(m), <<"permission", "denied">>))

ServerErrorSignal(m) ==
  Truthy(m) /\ (includes(m, <<"500">>) \/ includes(m, <<"503">>)
                \/ includes(toLowerCase(m), <<"service", "unavailable">>))

OutcomeKind(h, outcome) ==
  IF outcome.kind = "rejects"
  THEN IF RateLimitSignal(outcome.message) THEN "rateLimit"
       ELSE IF InvalidKeySignal(outcome.message) THEN "invalidKey"
       ELSE IF ServerErrorSignal(outcome.message) THEN "serverError"
       ELSE "otherError"
  ELSE IF h = "describe"
  THEN IF outcome.response.text = "" THEN "noText" ELSE "payload"
  ELSE IF outcome.response.candidates = <<>> THEN "noCandidate"
  ELSE IF outcome.response.candidates[1].finishReason = "SAFETY" THEN "safety"
  ELSE IF \E k \in DOMAIN outcome.response.candidates[1].parts :
            LET part == outcome.response.candidates[1].parts[k]
            IN part.inlineData.present /\ part.inlineData.data # ""
  THEN "payload"
  ELSE "noImage"

\* The upstream response an invocation got, when it carries a payload.
Received(h, outcome) ==
  IF OutcomeKind(h, outcome) = "payload" THEN outcome.response ELSE NoPayload

Attempt(pos, key) == [pos |-> pos, key |-> key, kind |-> "pending"]

(***************************************************************************)
(* Browser client (index.tsx): values of its state                         *)
(***************************************************************************)
\* A settled fetch(): the status and the body; `json` tells whether
\* response.json() can parse the body.
Answer(status, json, body) == [status |-> status, json |-> json, body |-> body]
NoAnswer == Answer(0, FALSE, ErrorBody(<<>>))

\* One activation of generateImage or of handleDescribe: the await it is
\* suspended at, the timer of setTimeout, the signal of its AbortController
\* and the response fetch() resolved with.
IdleRun == [pc |-> "idle", timer |-> "unset", aborted |-> FALSE, response |-> NoAnswer]

\* The styles the user can pick: one with a single uploader, one with two.
Styles == {"Default", "Campuran Gambar"}
singleUploader(style) == style = "Default"

\* useState(...) of App
ClientStart ==
  /\ prompt = ""
  /\ mainImage = FALSE
  /\ styleImage = FALSE
  /\ generatedImage = Null
  /\ isLoading = FALSE
  /\ error = <<>>
  /\ activeStyle = "Default"
  /\ isDescribeLoading = FALSE
  /\ generateImage = [r \in Runs |-> IdleRun]
  /\ handleDescribe = [r \in Runs |-> IdleRun]

Init ==
  /\ env \in Environments
  /\ apiKeys = [h \in Handlers |-> ParsePool(env)]
  /\ currentKeyIndex = [h \in Handlers |-> 0]
  /\ inv = [n \in Invocations |-> IdleInvocation]
  /\ upstreamCalls = [h \in Handlers |-> 0]
  /\ handedOut = [h \in Handlers |-> <<>>]
  /\ ClientStart

\* Mutant: the two handlers share one cursor.
CursorWriteShared(cursors, h, index) == [x \in DOMAIN cursors |-> index]

\* currentKeyIndex = ... inside getNextApiKey: each handler module writes its
\* own module-level variable.
CursorWrite(cursors, h, index) == [cursors EXCEPT ![h] = index]

\* The invocation reaches the awaited upstream call selected by `l`, or
\* leaves the loop without a response.
EnterLoop(n, h, base, l) ==
  /\ currentKeyIndex' = CursorWrite(currentKeyIndex, h, l.index)
  /\ IF l.awaiting
     THEN /\ inv' = [inv EXCEPT ![n] =
                       [base EXCEPT !.pc = "awaiting", !.i = l.i, !.apiKey = l.apiKey,
                                    !.tried = Append(base.tried, Attempt(l.pos, l.apiKey))]]
          /\ upstreamCalls' = [upstreamCalls EXCEPT ![h] = @ + 1]
          /\ handedOut' = [handedOut EXCEPT ![h] = Append(@, l.pos)]
     ELSE /\ inv' = [inv EXCEPT ![n] = [base EXCEPT !.pc = "done", !.i = l.i]]
          /\ UNCHANGED <<upstreamCalls, handedOut>>

Respond(n, base, status, body) ==
  /\ inv' = [inv EXCEPT ![n] =
               [base EXCEPT !.pc = "done",
                            !.sent = Append(base.sent, [status |-> status, body |-> body])]]
  /\ UNCHANGED <<currentKeyIndex, upstreamCalls, handedOut>>

\* Mutant: the empty-pool check is missing.
PoolEmptyNotChecked(keys) == FALSE

\* apiKeys.length === 0
PoolEmpty(keys) == Len(keys) = 0

\* handler(req, res) from its entry to the first awaited call or to a return.
\* Invocations are numbered in the order in which their requests arrive.
\* Mutant: the presence check comes before the empty-pool check.
HandlerStartValidatesFirst(n, h, method, body) ==
  /\ inv[n].pc = "idle"
  /\ \A m \in 1..(n - 1) : inv[m].pc # "idle"
  /\ LET base == [inv[n] EXCEPT !.h = h, !.method = method, !.body = body]
     IN IF method # "POST"
        THEN Respond(n, base, 405, ErrorBody(<<"Method Not Allowed">>))
        ELSE IF FieldsMissing(h, body)
        THEN Respond(n, base, 400, ErrorBody(<<"Missing required fields">>))
        ELSE IF PoolEmpty(apiKeys[h])
        THEN Respond(n, base, 500, ErrorBody(<<"API key not configured on the server.">>))
        ELSE LET totalKeys == Len(apiKeys[h])
             IN EnterLoop(n, h, [base EXCEPT !.loop = TRUE, !.totalKeys = totalKeys],
                          LoopFrom(apiKeys[h], currentKeyIndex[h], 0, totalKeys))
  /\ UNCHANGED <<env, apiKeys, clientVars>>

HandlerStart(n, h, method, body) ==
  /\ inv[n].pc = "idle"
  /\ \A m \in 1..(n - 1) : inv[m].pc # "idle"
  /\ LET base == [inv[n] EXCEPT !.h = h, !.method = method, !.body = body]
     IN IF method # "POST"
        THEN Respond(n, base, 405, ErrorBody(<<"Method Not Allowed">>))
        ELSE IF PoolEmpty(apiKeys[h])
        THEN Respond(n, base, 500, ErrorBody(<<"API key not configured on the server.">>))
        ELSE IF FieldsMissing(h, body)
        THEN Respond(n, base, 400, ErrorBody(<<"Missing required fields">>))
        ELSE LET totalKeys == Len(apiKeys[h])
             IN EnterLoop(n, h, [base EXCEPT !.loop = TRUE, !.totalKeys = totalKeys],
                          LoopFrom(apiKeys[h], currentKeyIndex[h], 0, totalKeys))
  /\ UNCHANGED <<env, apiKeys, clientVars>>

\* the awaited upstream call settles: the rest of the iteration, then the
\* loop up to the next awaited call or to a return
UpstreamSettles(n, outcome) ==
  /\ inv[n].pc = "awaiting"
  /\ outcome \in UpstreamOutcomes(inv[n].h)
  /\ LET h == inv[n].h
         r == Iteration(h, outcome, inv[n].i, inv[n].totalKeys)
         base == [inv[n] EXCEPT !.tried[Len(inv[n].tried)].kind = OutcomeKind(h, outcome),
                                !.received = Received(h, outcome)]
     IN IF r.t = "return"
        THEN Respond(n, base, r.status, r.body)
        ELSE EnterLoop(n, h, base,
                       LoopFrom(apiKeys[h], currentKeyIndex[h], inv[n].i + 1, inv[n].totalKeys))
  /\ UNCHANGED <<env, apiKeys, clientVars>>

Start == \E n \in DOMAIN inv, h \in Handlers, method \in Methods :
           \E body \in Bodies(h) : HandlerStart(n, h, method, body)

Settle == \E n \in DOMAIN inv :
            \E outcome \in UpstreamOutcomes(inv[n].h) : UpstreamSettles(n, outcome)

Next == Start \/ Settle

Spec == Init /\ [][Next]_vars

\* No concurrent callers: a request arrives only while no invocation is
\* suspended at an upstream call.
SeqStart == /\ \A m \in DOMAIN inv : inv[m].pc # "awaiting"
            /\ Start

SeqNext == SeqStart \/ Settle

SeqSpec == Init /\ [][SeqNext]_vars

\* Every upstream call eventually returns or throws.
SettleOf(n) == \E outcome \in UpstreamOutcomes(inv[n].h) : UpstreamSettles(n, outcome)

LiveSpec == Init /\ [][Next]_vars /\ \A n \in Invocations : WF_vars(SettleOf(n))

\* Mutant: giving up the request ends the invocation and drops its call.
AbandonCancels(r) == [r EXCEPT !.abandonedAt = Len(r.tried), !.pc = "done"]

\* The caller gives up the request (index.tsx: controller.abort() after 60 s).
\* The handlers register no listener on the request and pass no signal to
\* generateContent: the invocation record changes in the history field only.
Abandon(r) == [r EXCEPT !.abandonedAt = Len(r.tried)]

CallerAborts(n) ==
  /\ inv[n].pc = "awaiting"
  /\ inv[n].abandonedAt = 0
  /\ inv' = [inv EXCEPT ![n] = Abandon(inv[n])]
  /\ UNCHANGED <<env, apiKeys, currentKeyIndex, upstreamCalls, handedOut, clientVars>>

Abort == \E n \in DOMAIN inv : CallerAborts(n)

AbortNext == Start \/ Settle \/ Abort

AbortSpec == Init /\ [][AbortNext]_vars

\* A run of well-formed POST requests served one after another, each upstream
\* call either rejected with a rate-limit error or fulfilled with a payload.
RoundBodies(h) ==
  IF h = "generate"
  THEN {[prompt |-> <<"p">>, imageParts |-> ArrayValue(1)]}
  ELSE {[imagePart |-> ObjectValue]}

RoundOutcomes(h) ==
  {Rejects(<<"429", "Too", "Many", "Requests">>)}
  \cup {Fulfils(r) : r \in
          IF h = "generate"
          THEN {[candidates |-> <<Candidate("STOP", <<ImagePart("img1", "image/png")>>)>>],
                [candidates |-> <<Candidate("STOP", <<TextPart("here"),
                                                      ImagePart("img2", "image/jpeg")>>)>>]}
          ELSE {[text |-> "a photo"]}}

RoundInit ==
  /\ env \in Environments
  /\ apiKeys = [h \in Handlers |-> ParsePool(env)]
  /\ currentKeyIndex = [h \in Handlers |-> 0]
  /\ inv = [n \in 1..MaxRound |-> IdleInvocation]
  /\ upstreamCalls = [h \in Handlers |-> 0]
  /\ handedOut = [h \in Handlers |-> <<>>]
  /\ ClientStart

RoundStart ==
  /\ \A m \in DOMAIN inv : inv[m].pc # "awaiting"
  /\ \E n \in DOMAIN inv, h \in Handlers :
       \E body \in RoundBodies(h) : HandlerStart(n, h, "POST", body)

RoundSettle ==
  \E n \in DOMAIN inv :
    \E outcome \in RoundOutcomes(inv[n].h) : UpstreamSettles(n, outcome)

RoundNext == RoundStart \/ RoundSettle

RoundSpec == RoundInit /\ [][RoundNext]_vars

\* Well-formed POST requests that may arrive at any time, also while earlier
\* ones await their upstream call.
CrowdStart ==
  \E n \in DOMAIN inv, h \in Handlers :
    \E body \in RoundBodies(h) : HandlerStart(n, h, "POST", body)

CrowdNext == CrowdStart \/ RoundSettle

CrowdSpec == RoundInit /\ [][CrowdNext]_vars

\* Module load with any configuration, then one well-formed request.
LoadInit ==
  /\ env \in AllEnvironments
  /\ apiKeys = [h \in Handlers |-> ParsePool(env)]
  /\ currentKeyIndex = [h \in Handlers |-> 0]
  /\ inv = [n \in {1} |-> IdleInvocation]
  /\ upstreamCalls = [h \in Handlers |-> 0]
  /\ handedOut = [h \in Handlers |-> <<>>]
  /\ ClientStart

LoadSpec == LoadInit /\ [][RoundNext]_vars

(***************************************************************************)
(* Browser client (index.tsx): what fetch() can settle with                *)
(***************************************************************************)
\* Upstream outcomes behind a request of the client: a rate-limit error or a
\* payload, an error without a mark, an error whose message names the quota
\* status only, and answers of the image model without a usable image.
ClientUpstreamOutcomes(h) ==
  RoundOutcomes(h)
  \cup {Rejects(<<"fetch", "failed">>),
        Rejects(<<"Quota", "exceeded", "RESOURCE_EXHAUSTED">>)}
  \cup {Fulfils(r) : r \in
          IF h = "generate"
          THEN {[candidates |-> <<Candidate("SAFETY", <<>>)>>],
                [candidates |-> <<Candidate("STOP", <<TextPart("429")>>)>>],
                [candidates |-> <<Candidate("STOP", <<ImagePart("", "image/png")>>)>>]}
          ELSE {[text |-> ""]}}

\* What the handler answers a well-formed POST with: the empty-pool response,
\* or whatever an iteration of its loop returns.
BackendAnswers(h) ==
  IF PoolEmpty(apiKeys[h])
  THEN {Answer(500, TRUE, ErrorBody(<<"API key not configured on the server.">>))}
  ELSE LET totalKeys == Len(apiKeys[h])
           returns == {r \in {Iteration(h, o, i, totalKeys) :
                                o \in ClientUpstreamOutcomes(h), i \in 0..(totalKeys - 1)} :
                         r.t = "return"}
       IN {Answer(r.status, TRUE, r.body) : r \in returns}

\* Responses that do not come from the handler ("server proxy/pembatas"):
\* the body is not JSON.
ProxyAnswers == {Answer(s, FALSE, ErrorBody(<<>>)) : s \in {200, 413, 429, 504}}

\* response.ok
ok(response) == response.status >= 200 /\ response.status <= 299

\* Errors thrown in the client
ClientError(name, message) == [name |-> name, message |-> message]
AbortError == ClientError("AbortError", <<"signal", "is", "aborted", "without", "reason">>)
SyntaxError == ClientError("SyntaxError", <<"Unexpected", "token", "<">>)
NetworkError == ClientError("TypeError", <<"Failed", "to", "fetch">>)
RateLimitError == ClientError("Error", <<"429", "RESOURCE_EXHAUSTED">>)

FetchRejects(e) == [kind |-> "rejects", e |-> e, response |-> NoAnswer]
FetchResolves(a) == [kind |-> "resolves", e |-> ClientError("", <<>>), response |-> a]

\* fetch('/api/...') of a run: with an aborted signal it rejects with an
\* AbortError, otherwise it rejects (network) or resolves with a response.
FetchOutcomes(h, run) ==
  IF run.aborted
  THEN {FetchRejects(AbortError)}
  ELSE {FetchRejects(NetworkError)}
       \cup {FetchResolves(a) : a \in BackendAnswers(h) \cup ProxyAnswers}

\* await response.json(): it parses the body, fails on a body that is not
\* JSON, or fails because the signal was aborted while the body is read.
BodyReads(run) ==
  (IF run.response.json THEN {"parsed"} ELSE {"syntax"})
  \cup (IF run.aborted THEN {"abort"} ELSE {})

(***************************************************************************)
(* Browser client: the texts it shows and its classification of errors     *)
(***************************************************************************)
UpperWord(w) ==
  CASE w = "resource_exhausted" -> "RESOURCE_EXHAUSTED"
    [] w = "Resource_Exhausted" -> "RESOURCE_EXHAUSTED"
    [] w = "exceeded" -> "EXCEEDED"
    [] w = "Quota" -> "QUOTA"
    [] OTHER -> w

toUpperCase(m) == [k \in 1..Len(m) |-> UpperWord(m[k])]

GenerateRateLimitText ==
  <<"Batas penggunaan AI tercapai. Ini biasa terjadi saat ada banyak permintaan. Silakan tunggu satu menit lalu coba lagi.">>
DescribeRateLimitText ==
  <<"Batas penggunaan AI tercapai. Silakan tunggu satu menit lalu coba lagi.">>
TimeoutText ==
  <<"Pembuatan gagal: Permintaan memakan waktu terlalu lama (timeout).">>

\* Mutant: the catch block does not look for the rate-limit marks.
isRateLimitMessageNever(message) == FALSE

\* e.message && (e.message.includes('429')
\*   || e.message.toUpperCase().includes('RESOURCE_EXHAUSTED'))
isRateLimitMessage(message) ==
  /\ Truthy(message)
  /\ \/ includes(message, <<"429">>)
     \/ includes(toUpperCase(message), <<"RESOURCE_EXHAUSTED">>)

\* catch (e) of generateImage: the text given to setError
generateImageCatch(e) ==
  IF e.name = "AbortError" THEN TimeoutText
  ELSE IF isRateLimitMessage(e.message) THEN GenerateRateLimitText
  ELSE <<"Pembuatan gagal:">> \o e.message

\* catch (e) of handleDescribe: the text given to setError
handleDescribeCatch(e) ==
  IF isRateLimitMessage(e.message) THEN DescribeRateLimitText
  ELSE <<"Deskripsi gagal:">> \o e.message

\* err.error of a parsed error body
ErrorOf(body) == IF "error" \in DOMAIN body THEN body.error ELSE Undefined

\* generateImage, if (!response.ok): the error it throws after reading the body
generateImageNotOk(response, read) ==
  LET errorText ==
        IF read = "parsed"
        THEN IF Truthy(ErrorOf(response.body)) THEN ErrorOf(response.body)
             ELSE <<"Terjadi kesalahan:", "statusText">>
        ELSE <<"Server mengembalikan respons yang tidak valid.">>
  IN IF response.status = 429 THEN RateLimitError ELSE ClientError("Error", errorText)

\* handleDescribe, if (!response.ok): the error it throws; a body that cannot
\* be read throws before the status is looked at
handleDescribeNotOk(response, read) ==
  IF read = "syntax" THEN SyntaxError
  ELSE IF read = "abort" THEN AbortError
  ELSE LET message == IF Truthy(ErrorOf(response.body)) THEN ErrorOf(response.body)
                      ELSE <<"Gagal mendeskripsikan gambar.">>
       IN IF response.status = 429 THEN RateLimitError ELSE ClientError("Error", message)

\* Mutant: a timer is never cleared.
clearTimeoutNever(timer) == timer

\* clearTimeout(timeoutId): a pending timer is cancelled, a fired one is gone
clearTimeout(timer) == IF timer = "pending" THEN "cleared" ELSE timer

\* Mutant: the Transform button is never disabled.
TransformDisabledNever == FALSE

\* <button className="transform-button" disabled={isLoading}>
TransformDisabled == isLoading

\* <button className="ai-describe-button" disabled={isDescribeLoading || !mainImage}>
DescribeDisabled == isDescribeLoading \/ ~mainImage

(***************************************************************************)
(* Browser client: one action is the code of a handler between two awaits  *)
(***************************************************************************)
\* finally { clearTimeout(timeoutId); setIsLoading(false); }
generateImageFinally(r, run) ==
  /\ generateImage' = [generateImage EXCEPT ![r] =
                         [IdleRun EXCEPT !.pc = "done", !.timer = clearTimeout(run.timer)]]
  /\ isLoading' = FALSE

\* catch (e) { setError(...); setGeneratedImage(null); } finally { ... }
generateImageThrows(r, run, e) ==
  /\ error' = generateImageCatch(e)
  /\ generatedImage' = Null
  /\ generateImageFinally(r, run)
  /\ UNCHANGED <<prompt, mainImage, styleImage, activeStyle, isDescribeLoading,
                 handleDescribe, serverVars>>

\* Click on Transform: generateImage() from its entry to its first await
ClickTransform(r) ==
  /\ ~TransformDisabled
  /\ generateImage[r].pc = "idle"
  /\ \A q \in 1..(r - 1) : generateImage[q].pc # "idle"
  /\ IF singleUploader(activeStyle) /\ ~mainImage
     THEN /\ error' = <<"Silakan unggah gambar utama.">>
          /\ UNCHANGED <<isLoading, generatedImage, generateImage>>
     ELSE IF ~singleUploader(activeStyle) /\ (~mainImage \/ ~styleImage)
     THEN /\ error' = <<"Silakan unggah gambar utama dan gambar kedua untuk mode ini.">>
          /\ UNCHANGED <<isLoading, generatedImage, generateImage>>
     ELSE /\ isLoading' = TRUE
          /\ generatedImage' = Null
          /\ error' = <<>>
          /\ generateImage' = [generateImage EXCEPT ![r] =
                                 [IdleRun EXCEPT !.pc = "reading", !.timer = "pending"]]
  /\ UNCHANGED <<prompt, mainImage, styleImage, activeStyle, isDescribeLoading,
                 handleDescribe, serverVars>>

\* setTimeout(() => controller.abort(), 60000) fires
GenerateTimeout(r) ==
  /\ generateImage[r].timer = "pending"
  /\ generateImage' = [generateImage EXCEPT ![r].timer = "fired", ![r].aborted = TRUE]
  /\ UNCHANGED <<prompt, mainImage, styleImage, generatedImage, isLoading, error,
                 activeStyle, isDescribeLoading, handleDescribe, serverVars>>

\* await fileToGenerativePart(...) resolved: the request is sent
GenerateFilesRead(r) ==
  /\ generateImage[r].pc = "reading"
  /\ generateImage' = [generateImage EXCEPT ![r].pc = "fetching"]
  /\ UNCHANGED <<prompt, mainImage, styleImage, generatedImage, isLoading, error,
                 activeStyle, isDescribeLoading, handleDescribe, serverVars>>

\* await fetch('/api/generate', ...) settled
GenerateFetchSettles(r, outcome) ==
  /\ generateImage[r].pc = "fetching"
  /\ outcome \in FetchOutcomes("generate", generateImage[r])
  /\ IF outcome.kind = "rejects"
     THEN generateImageThrows(r, generateImage[r], outcome.e)
     ELSE /\ generateImage' = [generateImage EXCEPT
                                 ![r].response = outcome.response,
                                 ![r].pc = IF ok(outcome.response) THEN "json" ELSE "errorJson"]
          /\ UNCHANGED <<prompt, mainImage, styleImage, generatedImage, isLoading, error,
                         activeStyle, isDescribeLoading, handleDescribe, serverVars>>

\* if (!response.ok): await response.json() settled, the error is thrown
GenerateErrorBodyRead(r, read) ==
  /\ generateImage[r].pc = "errorJson"
  /\ read \in BodyReads(generateImage[r])
  /\ generateImageThrows(r, generateImage[r],
                         generateImageNotOk(generateImage[r].response, read))

\* const imageData = await response.json() settled
GenerateBodyRead(r, read) ==
  /\ generateImage[r].pc = "json"
  /\ read \in BodyReads(generateImage[r])
  /\ LET run == generateImage[r]
         imageData == run.response.body
     IN IF read = "syntax" THEN generateImageThrows(r, run, SyntaxError)
        ELSE IF read = "abort" THEN generateImageThrows(r, run, AbortError)
        ELSE IF "base64" \in DOMAIN imageData /\ imageData.base64 # ""
        THEN /\ generateImage' = [generateImage EXCEPT ![r].pc = "watermark"]
             /\ UNCHANGED <<prompt, mainImage, styleImage, generatedImage, isLoading,
                            error, activeStyle, isDescribeLoading, handleDescribe,
                            serverVars>>
        ELSE generateImageThrows(r, run,
               ClientError("Error", <<"Respons API tidak valid dari server.">>))

\* await addWatermark(rawImageUrl) settled
GenerateWatermarkSettles(r, resolved) ==
  /\ generateImage[r].pc = "watermark"
  /\ LET run == generateImage[r]
         imageData == run.response.body
         rawImageUrl == <<"data:", imageData.mimeType, imageData.base64>>
     IN /\ IF resolved
           THEN /\ generatedImage' = <<"watermark">> \o rawImageUrl
                /\ UNCHANGED error
           ELSE /\ error' = <<"Gambar berhasil dibuat tetapi watermark gagal ditambahkan:",
                              "Gagal memuat gambar">>
                /\ generatedImage' = rawImageUrl
        /\ generateImageFinally(r, run)
  /\ UNCHANGED <<prompt, mainImage, styleImage, activeStyle, isDescribeLoading,
                 handleDescribe, serverVars>>

\* finally { setIsDescribeLoading(false); }
handleDescribeFinally(r, run) ==
  /\ handleDescribe' = [handleDescribe EXCEPT ![r] = [IdleRun EXCEPT !.pc = "done"]]
  /\ isDescribeLoading' = FALSE

\* catch (e) { setError(...); } finally { ... }
handleDescribeThrows(r, run, e) ==
  /\ error' = handleDescribeCatch(e)
  /\ handleDescribeFinally(r, run)
  /\ UNCHANGED <<prompt, mainImage, styleImage, generatedImage, isLoading, activeStyle,
                 generateImage, serverVars>>

\* Click on "Deskripsi AI": handleDescribe() from its entry to its first await
ClickDescribe(r) ==
  /\ ~DescribeDisabled
  /\ handleDescribe[r].pc = "idle"
  /\ \A q \in 1..(r - 1) : handleDescribe[q].pc # "idle"
  /\ IF ~mainImage
     THEN /\ error' = <<"Silakan unggah gambar terlebih dahulu untuk dideskripsikan.">>
          /\ UNCHANGED <<isDescribeLoading, handleDescribe>>
     ELSE /\ isDescribeLoading' = TRUE
          /\ error' = <<>>
          /\ handleDescribe' = [handleDescribe EXCEPT ![r] = [IdleRun EXCEPT !.pc = "reading"]]
  /\ UNCHANGED <<prompt, mainImage, styleImage, generatedImage, isLoading, activeStyle,
                 generateImage, serverVars>>

\* await fileToGenerativePart(mainImage) resolved: the request is sent
DescribeFileRead(r) ==
  /\ handleDescribe[r].pc = "reading"
  /\ handleDescribe' = [handleDescribe EXCEPT ![r].pc = "fetching"]
  /\ UNCHANGED <<prompt, mainImage, styleImage, generatedImage, isLoading, error,
                 activeStyle, isDescribeLoading, generateImage, serverVars>>

\* await fetch('/api/describe', ...) settled (no abort signal)
DescribeFetchSettles(r, outcome) ==
  /\ handleDescribe[r].pc = "fetching"
  /\ outcome \in FetchOutcomes("describe", handleDescribe[r])
  /\ IF outcome.kind = "rejects"
     THEN handleDescribeThrows(r, handleDescribe[r], outcome.e)
     ELSE /\ handleDescribe' = [handleDescribe EXCEPT
                                  ![r].response = outcome.response,
                                  ![r].pc = IF ok(outcome.response) THEN "json" ELSE "errorJson"]
          /\ UNCHANGED <<prompt, mainImage, styleImage, generatedImage, isLoading, error,
                         activeStyle, isDescribeLoading, generateImage, serverVars>>

\* if (!response.ok): await response.json() settled, the error is thrown
DescribeErrorBodyRead(r, read) ==
  /\ handleDescribe[r].pc = "errorJson"
  /\ read \in BodyReads(handleDescribe[r])
  /\ handleDescribeThrows(r, handleDescribe[r],
                          handleDescribeNotOk(handleDescribe[r].response, read))

\* const data = await response.json() settled
DescribeBodyRead(r, read) ==
  /\ handleDescribe[r].pc = "json"
  /\ read \in BodyReads(handleDescribe[r])
  /\ LET run == handleDescribe[r]
         data == run.response.body
     IN IF read = "syntax" THEN handleDescribeThrows(r, run, SyntaxError)
        ELSE /\ IF "description" \in DOMAIN data /\ data.description # ""
                THEN /\ prompt' = data.description
                     /\ UNCHANGED error
                ELSE /\ error' = <<"AI tidak dapat menghasilkan deskripsi untuk gambar ini.">>
                     /\ UNCHANGED prompt
             /\ handleDescribeFinally(r, run)
             /\ UNCHANGED <<mainImage, styleImage, generatedImage, isLoading, activeStyle,
                            generateImage, serverVars>>

\* handleFileChange: the user picks a file for an uploader that is empty
Upload(main) ==
  /\ IF main THEN ~mainImage ELSE ~styleImage
  /\ error' = <<>>
  /\ IF main
     THEN mainImage' = TRUE /\ UNCHANGED styleImage
     ELSE styleImage' = TRUE /\ UNCHANGED mainImage
  /\ UNCHANGED <<prompt, generatedImage, isLoading, activeStyle, isDescribeLoading,
                 generateImage, handleDescribe, serverVars>>

\* style.prompt.replace('{prompt}', '').trim()
displayPrompt(style) ==
  IF style = "Default" THEN "" ELSE "Campurkan gambar utama dengan gambar gaya."

\* handleStyleClick: the user picks a style
StyleClick(style) ==
  /\ activeStyle' = style
  /\ prompt' = displayPrompt(style)
  /\ UNCHANGED <<mainImage, styleImage, generatedImage, isLoading, error,
                 isDescribeLoading, generateImage, handleDescribe, serverVars>>

UserActs ==
  \/ \E main \in BOOLEAN : Upload(main)
  \/ \E style \in Styles : StyleClick(style)
  \/ \E r \in Runs : ClickTransform(r)
  \/ \E r \in Runs : ClickDescribe(r)

GenerateRuns ==
  \/ \E r \in Runs : GenerateTimeout(r)
  \/ \E r \in Runs : GenerateFilesRead(r)
  \/ \E r \in Runs : \E outcome \in FetchOutcomes("generate", generateImage[r]) :
       GenerateFetchSettles(r, outcome)
  \/ \E r \in Runs, read \in {"parsed", "syntax", "abort"} : GenerateErrorBodyRead(r, read)
  \/ \E r \in Runs, read \in {"parsed", "syntax", "abort"} : GenerateBodyRead(r, read)
  \/ \E r \in Runs, resolved \in BOOLEAN : GenerateWatermarkSettles(r, resolved)

DescribeRuns ==
  \/ \E r \in Runs : DescribeFileRead(r)
  \/ \E r \in Runs : \E outcome \in FetchOutcomes("describe", handleDescribe[r]) :
       DescribeFetchSettles(r, outcome)
  \/ \E r \in Runs, read \in {"parsed", "syntax", "abort"} : DescribeErrorBodyRead(r, read)
  \/ \E r \in Runs, read \in {"parsed", "syntax", "abort"} : DescribeBodyRead(r, read)

ClientNext == UserActs \/ GenerateRuns \/ DescribeRuns

\* The page opened against a deployment without credentials or with two.
ClientInit ==
  /\ env \in {[API_KEYS_POOL |-> Unset, API_KEY |-> Unset],
              [API_KEYS_POOL |-> EnvStr(JoinLetters(2)), API_KEY |-> Unset]}
  /\ apiKeys = [h \in Handlers |-> ParsePool(env)]
  /\ currentKeyIndex = [h \in Handlers |-> 0]
  /\ inv = [n \in Invocations |-> IdleInvocation]
  /\ upstreamCalls = [h \in Handlers |-> 0]
  /\ handedOut = [h \in Handlers |-> <<>>]
  /\ ClientStart

ClientSpec == ClientInit /\ [][ClientNext]_vars

\* What settles without the network: file reads, the watermark, the timer,
\* and every await on a request whose signal is aborted.
GenerateSettlesLocally(r) ==
  \/ GenerateTimeout(r)
  \/ GenerateFilesRead(r)
  \/ \E resolved \in BOOLEAN : GenerateWatermarkSettles(r, resolved)
  \/ /\ generateImage[r].aborted
     /\ \/ GenerateFetchSettles(r, FetchRejects(AbortError))
        \/ \E read \in {"parsed", "syntax", "abort"} : GenerateErrorBodyRead(r, read)
        \/ \E read \in {"parsed", "syntax", "abort"} : GenerateBodyRead(r, read)

ClientLiveSpec ==
  ClientInit /\ [][ClientNext]_vars /\ \A r \in Runs : WF_vars(GenerateSettlesLocally(r))

(***************************************************************************)
(* Properties                                                              *)
(***************************************************************************)
PoolSize(n) == Len(apiKeys[inv[n].h])
Calls(n) == Len(inv[n].tried)
Terminal(n) == inv[n].pc = "done"
Status(n) == IF Len(inv[n].sent) >= 1 THEN inv[n].sent[1].status ELSE 0
Positions(n) == {inv[n].tried[k].pos : k \in DOMAIN inv[n].tried}
Settled(n, k) == inv[n].tried[k].kind # "pending"
\* the invocation returned on attempt k: no later attempt, one response
ReturnedAt(n, k) == k = Calls(n) /\ Terminal(n) /\ Len(inv[n].sent) = 1

\* C1: every invocation of a pooled handler, under any interleaving with
\* other invocations, makes at most N upstream calls (N the pool size) and
\* sends exactly one response: none before it returns, one when it has
\* returned, never two.
C1_AtMostNCallsOneResponse ==
  \A n \in Invocations :
    /\ Calls(n) <= PoolSize(n)
    /\ Len(inv[n].sent) <= 1
    /\ Terminal(n) <=> Len(inv[n].sent) = 1

\* an invocation that used all N = 3 attempts while another invocation took
\* a credential in between, and answered once
C1_Witness ==
  \E n \in Invocations :
    /\ PoolSize(n) = 3 /\ Calls(n) = 3 /\ Terminal(n) /\ Len(inv[n].sent) = 1
    /\ inv[n].tried[2].pos # (inv[n].tried[1].pos + 1) % 3

\* C2 (as stated): in both handlers an upstream error without a rate-limit
\* signal ends the invocation at once: it is the last attempt and the
\* response is an error response other than 429.
NonRateLimitError == {"invalidKey", "serverError", "otherError"}

C2_AnyOtherErrorReturnsImmediately ==
  \A n \in Invocations : \A k \in DOMAIN inv[n].tried :
    inv[n].tried[k].kind \in NonRateLimitError
      => ReturnedAt(n, k) /\ Status(n) = 500

\* C2 (amended): generate returns at once with status 500 on every upstream
\* error without a rate-limit signal; describe does so on every upstream error
\* that carries none of the rate-limit, invalid-key/permission-denied and
\* server-error (500/503/service unavailable) signals.
C2_NonRetryableErrorReturnsImmediately ==
  \A n \in Invocations : \A k \in DOMAIN inv[n].tried :
    /\ inv[n].h = "generate" /\ inv[n].tried[k].kind \in NonRateLimitError
         => ReturnedAt(n, k) /\ Status(n) = 500
    /\ inv[n].h = "describe" /\ inv[n].tried[k].kind = "otherError"
         => ReturnedAt(n, k) /\ Status(n) = 500

\* generate gave up on an invalid-key error of its first credential with
\* credentials left, describe on a transport error of its second attempt
C2_Witness ==
  \E n, m \in Invocations :
    /\ inv[n].h = "generate" /\ PoolSize(n) = 3 /\ Calls(n) = 1 /\ Terminal(n)
    /\ inv[n].tried[1].kind = "invalidKey" /\ Status(n) = 500
    /\ inv[m].h = "describe" /\ PoolSize(m) = 3 /\ Calls(m) = 2 /\ Terminal(m)
    /\ inv[m].tried[2].kind = "otherError" /\ Status(m) = 500

\* C3: without concurrent callers, an invocation all of whose upstream calls
\* fail with a rate-limit signal answers 429 after exactly N calls, made with
\* N different pool entries, each the credential at its position.
AllRateLimited(n) == \A k \in DOMAIN inv[n].tried : inv[n].tried[k].kind = "rateLimit"

C3_AllRetryableGivesExhaustedAfterN ==
  \A n \in Invocations :
    Terminal(n) /\ Calls(n) >= 1 /\ AllRateLimited(n)
      => /\ Status(n) = 429
         /\ Calls(n) = PoolSize(n)
         /\ Cardinality(Positions(n)) = PoolSize(n)
         /\ \A k \in DOMAIN inv[n].tried :
              inv[n].tried[k].key = KeyAt(apiKeys[inv[n].h], inv[n].tried[k].pos)

\* a pool of three exhausted by an invocation that started at cursor 1 and
\* wrapped around: positions 1, 2, 0
C3_Witness ==
  \E n \in Invocations :
    /\ PoolSize(n) = 3 /\ Calls(n) = 3 /\ Terminal(n) /\ AllRateLimited(n) /\ Status(n) = 429
    /\ inv[n].tried[1].pos = 1 /\ inv[n].tried[3].pos = 0

\* C4: an upstream call that yields a payload ends the invocation at once with
\* status 200: no further attempt is made by that invocation; when it was the
\* first attempt the invocation made exactly one upstream call, for every pool
\* size and every cursor value it started from.
C4_SuccessReturnsImmediately ==
  \A n \in Invocations : \A k \in DOMAIN inv[n].tried :
    inv[n].tried[k].kind = "payload" => ReturnedAt(n, k) /\ Status(n) = 200

\* first attempt succeeds with the cursor at 2 in a pool of three, while
\* another invocation of the same handler is still waiting
C4_Witness ==
  \E n, m \in Invocations :
    /\ PoolSize(n) = 3 /\ Calls(n) = 1 /\ Terminal(n) /\ Status(n) = 200
    /\ inv[n].tried[1].kind = "payload" /\ inv[n].tried[1].pos = 2
    /\ inv[m].h = inv[n].h /\ inv[m].pc = "awaiting"

\* C5: with an empty pool every POST request is answered 500 with the
\* configuration error, before the retry loop and without any upstream call.
ConfigurationError ==
  [status |-> 500, body |-> ErrorBody(<<"API key not configured on the server.">>)]

C5_EmptyPoolConfigurationError ==
  \A n \in Invocations :
    inv[n].pc # "idle" /\ inv[n].method = "POST" /\ PoolSize(n) = 0
      => /\ Terminal(n) /\ inv[n].sent = <<ConfigurationError>>
         /\ ~inv[n].loop /\ Calls(n) = 0 /\ upstreamCalls[inv[n].h] = 0

\* both handlers answered a well-formed POST with the configuration error
C5_Witness ==
  \E n, m \in Invocations :
    /\ inv[n].h = "generate" /\ inv[m].h = "describe"
    /\ \A x \in {n, m} :
         /\ Terminal(x) /\ PoolSize(x) = 0
         /\ inv[x].method = "POST" /\ ~FieldsMissing(inv[x].h, inv[x].body)
         /\ inv[x].sent = <<ConfigurationError>>

\* C6: within one invocation, also with other invocations running at the same
\* time, the attempts use pairwise different pool positions in cyclic pool
\* order, and the invocation answers 429 only after it has tried every
\* position of the pool.
C6_DistinctCyclicUnderConcurrency ==
  \A n \in Invocations :
    /\ \A j, k \in DOMAIN inv[n].tried : j # k => inv[n].tried[j].pos # inv[n].tried[k].pos
    /\ \A k \in 1..(Calls(n) - 1) :
         inv[n].tried[k + 1].pos = (inv[n].tried[k].pos + 1) % PoolSize(n)
    /\ Terminal(n) /\ Status(n) = 429 => Positions(n) = 0..(PoolSize(n) - 1)

\* C7 (as stated): without concurrent callers, a 429 response means that all
\* N pool positions were tried and every one of the N calls failed with a
\* rate-limit signal.
C7_ExhaustedMeansAllRateLimited ==
  \A n \in Invocations :
    Terminal(n) /\ Status(n) = 429
      => /\ Calls(n) = PoolSize(n) /\ Positions(n) = 0..(PoolSize(n) - 1)
         /\ AllRateLimited(n)

\* C7 (amended): without concurrent callers, a 429 response means that all N
\* pool positions were tried; in generate every one of the N calls failed with
\* a rate-limit signal, in describe every one failed with a rate-limit, an
\* invalid-key/permission-denied or a server-error signal.
C7_ExhaustedMeansAllRetried ==
  \A n \in Invocations :
    Terminal(n) /\ Status(n) = 429
      => /\ Calls(n) = PoolSize(n) /\ Positions(n) = 0..(PoolSize(n) - 1)
         /\ inv[n].h = "generate" => AllRateLimited(n)
         /\ inv[n].h = "describe" =>
              \A k \in DOMAIN inv[n].tried :
                inv[n].tried[k].kind \in {"rateLimit", "invalidKey", "serverError"}

\* generate answered 429 after three rate-limited calls, then describe
\* answered 429 after a rate-limited, an invalid-key and a server-error call
C7_Witness ==
  \E n, m \in Invocations :
    /\ inv[n].h = "generate" /\ PoolSize(n) = 3 /\ Terminal(n) /\ Status(n) = 429
    /\ inv[m].h = "describe" /\ Terminal(m) /\ Status(m) = 429
    /\ inv[m].tried[1].kind = "rateLimit" /\ inv[m].tried[2].kind = "invalidKey"
    /\ inv[m].tried[3].kind = "serverError"

\* C8: with a non-empty pool the cursor is always in 0..N-1, and every step
\* that calls getNextApiKey hands the invocation the truthy credential at the
\* old cursor position and moves the cursor to (cursor + 1) mod N.
CursorInRange(index, h) == Len(apiKeys[h]) > 0 => index \in 0..(Len(apiKeys[h]) - 1)

C8_GetNextApiKeyRoundRobin ==
  [][\A h \in Handlers :
       /\ CursorInRange(currentKeyIndex[h], h) /\ CursorInRange(currentKeyIndex'[h], h)
       /\ (currentKeyIndex'[h] # currentKeyIndex[h] \/ upstreamCalls'[h] # upstreamCalls[h])
            => /\ currentKeyIndex'[h] = (currentKeyIndex[h] + 1) % Len(apiKeys[h])
               /\ \E n \in Invocations :
                    /\ inv'[n].h = h /\ inv'[n].pc = "awaiting"
                    /\ Len(inv'[n].tried) = Len(inv[n].tried) + 1
                    /\ inv'[n].tried[Len(inv'[n].tried)] =
                         Attempt(currentKeyIndex[h], apiKeys[h][currentKeyIndex[h] + 1])
                    /\ inv'[n].apiKey = apiKeys[h][currentKeyIndex[h] + 1]
                    /\ Truthy(inv'[n].apiKey)
    ]_vars

\* an invocation took the last position of a pool of two and then, the cursor
\* having wrapped, the first
C8_Witness ==
  \E n \in Invocations :
    /\ PoolSize(n) = 2 /\ Calls(n) = 2
    /\ inv[n].tried[1].pos = 1 /\ inv[n].tried[2].pos = 0
    /\ inv[n].apiKey = <<"a">> /\ currentKeyIndex[inv[n].h] = 1

\* C9: in every reachable state the cursor of a handler equals the number of
\* upstream attempts made so far by all invocations of that handler, modulo
\* the pool size: one advance per attempt whatever its outcome, none otherwise.
RECURSIVE AttemptsUpTo(_, _)
AttemptsUpTo(h, n) ==
  IF n = 0 THEN 0
  ELSE AttemptsUpTo(h, n - 1) + (IF inv[n].pc # "idle" /\ inv[n].h = h THEN Calls(n) ELSE 0)

C9_CursorCountsAttempts ==
  \A h \in Handlers :
    /\ upstreamCalls[h] = AttemptsUpTo(h, MaxInv)
    /\ Len(apiKeys[h]) > 0 => currentKeyIndex[h] = upstreamCalls[h] % Len(apiKeys[h])
    /\ Len(apiKeys[h]) = 0 => currentKeyIndex[h] = 0

\* four attempts on a pool of three by two overlapping invocations, ending in
\* a success, and in a non-retryable failure after two retryable ones
C9_Witness ==
  \E n, m \in Invocations :
    /\ n # m /\ inv[n].h = inv[m].h /\ PoolSize(n) = 3
    /\ Calls(n) = 3 /\ inv[n].tried[3].kind = "otherError"
    /\ Calls(m) = 1 /\ inv[m].tried[1].kind = "payload" /\ inv[m].tried[1].pos = 1
    /\ upstreamCalls[inv[n].h] = 4 /\ currentKeyIndex[inv[n].h] = 1

\* C10: an upstream call that returns normally with a safety rejection, no
\* candidate, no image payload or (describe) no text ends the invocation at
\* once with an error response (400 or 500), at every position of the loop.
UnusableResponse == {"safety", "noCandidate", "noImage", "noText"}

LastKind(n) == inv[n].tried[Calls(n)].kind
Succeeded(n) == inv[n].loop /\ Terminal(n) /\ LastKind(n) = "payload"

\* The payload of an upstream response: the text of a describe response, the
\* data and mime type of the first part of a generate response that carries
\* image data.
UpstreamImage(response) ==
  LET parts == response.candidates[1].parts
      HasImage(k) == parts[k].inlineData.present /\ parts[k].inlineData.data # ""
      first == CHOOSE k \in DOMAIN parts : HasImage(k) /\ \A j \in 1..(k - 1) : ~HasImage(j)
  IN parts[first].inlineData

PayloadBody(n) ==
  IF inv[n].h = "generate"
  THEN ImageBody(UpstreamImage(inv[n].received).data, UpstreamImage(inv[n].received).mimeType)
  ELSE DescriptionBody(inv[n].received.text)

\* The errors after which a handler goes on to its next key.
Retried(h) ==
  IF h = "generate" THEN {"rateLimit"} ELSE {"rateLimit", "invalidKey", "serverError"}

\* All N calls were made and every one failed with an error of the class R.
Exhausted(n, R) ==
  /\ inv[n].loop /\ Terminal(n) /\ Calls(n) = PoolSize(n)
  /\ \A k \in DOMAIN inv[n].tried : inv[n].tried[k].kind \in R

StatusOfClassification(n, R) ==
  /\ Succeeded(n) => Status(n) = 200 /\ inv[n].sent[1].body = PayloadBody(n)
  /\ Status(n) = 200 => Succeeded(n) /\ inv[n].received # NoPayload
  /\ Terminal(n) /\ inv[n].method = "POST" /\ PoolSize(n) = 0
       => inv[n].sent = <<ConfigurationError>>
  /\ Exhausted(n, R) => Status(n) = 429
  /\ Status(n) = 429 => Exhausted(n, R)
  /\ inv[n].loop /\ Terminal(n) /\ ~Succeeded(n) /\ ~Exhausted(n, R)
       => Status(n) \in {400, 500}

C12_PayloadReturnedUnmodified ==
  /\ \A n \in Invocations :
       Succeeded(n) =>
         /\ inv[n].received # NoPayload /\ Len(inv[n].sent) = 1
         /\ inv[n].h = "generate" =>
              /\ inv[n].sent[1].body.base64 = UpstreamImage(inv[n].received).data
              /\ inv[n].sent[1].body.mimeType = UpstreamImage(inv[n].received).mimeType
              /\ DOMAIN inv[n].sent[1].body = {"base64", "mimeType"}
         /\ inv[n].h = "describe" =>
              /\ inv[n].sent[1].body.description = inv[n].received.text
              /\ DOMAIN inv[n].sent[1].body = {"description"}
  /\ \A n, m \in Invocations :
       Succeeded(n) /\ Succeeded(m) /\ inv[n].h = inv[m].h /\ inv[n].received = inv[m].received
         => inv[n].sent = inv[m].sent

\* two generate invocations received the response whose image part follows a
\* text part, one on its first call and one on its third, and both answered
\* with that image and its mime type
C12_Witness ==
  \E n, m \in Invocations :
    /\ n # m /\ inv[n].h = "generate" /\ inv[m].h = "generate"
    /\ Succeeded(n) /\ Succeeded(m) /\ Calls(n) = 1 /\ Calls(m) = 3
    /\ inv[n].received = inv[m].received
    /\ Len(inv[n].received.candidates[1].parts) = 2
    /\ inv[n].sent = <<[status |-> 200, body |-> ImageBody("img2", "image/jpeg")]>>
    /\ inv[m].sent = inv[n].sent

\* The body lacks a field the handler needs: generate a non-empty prompt and a
\* non-empty array imageParts, describe an imagePart.
Incomplete(h, body) ==
  IF h = "generate"
  THEN \/ body.prompt \in {Undefined, <<>>}
       \/ body.imageParts \in {UndefinedValue, ObjectValue, ArrayValue(0)}
  ELSE body.imagePart = UndefinedValue

ValidationFailed(n) ==
  inv[n].pc # "idle" /\ inv[n].method = "POST" /\ Incomplete(inv[n].h, inv[n].body)

\* C13 (as stated): every POST request whose body fails the presence check is
\* answered 400 at once, without entering the retry loop and without any
\* upstream call.
C13_MissingFieldsAnswered400 ==
  \A n \in Invocations :
    ValidationFailed(n)
      => Terminal(n) /\ Status(n) = 400 /\ ~inv[n].loop /\ Calls(n) = 0

\* C13 (amended): every POST request whose body fails the presence check is
\* answered at once, without entering the retry loop and without any upstream
\* call: with 400 when the pool is not empty, with the configuration error 500
\* when it is; and 400 is sent without an upstream call for such requests only.
C13_MissingFieldsAnsweredWithoutUpstream ==
  \A n \in Invocations :
    /\ ValidationFailed(n)
         => /\ Terminal(n) /\ Len(inv[n].sent) = 1 /\ ~inv[n].loop /\ Calls(n) = 0
            /\ PoolSize(n) > 0 => Status(n) = 400
            /\ PoolSize(n) = 0 => inv[n].sent = <<ConfigurationError>>
    /\ Terminal(n) /\ Status(n) = 400 /\ ~inv[n].loop => ValidationFailed(n) /\ PoolSize(n) > 0

\* generate answered 400 to an empty imageParts array and describe answered
\* 400 to a missing imagePart, both with a pool of three keys and no upstream
\* call made
C13_Witness ==
  \E n, m \in Invocations :
    /\ inv[n].h = "generate" /\ inv[m].h = "describe" /\ PoolSize(n) = 3
    /\ Terminal(n) /\ Terminal(m) /\ inv[n].method = "POST" /\ inv[m].method = "POST"
    /\ inv[n].body.imageParts = ArrayValue(0) /\ inv[m].body.imagePart = UndefinedValue
    /\ Status(n) = 400 /\ Status(m) = 400
    /\ upstreamCalls = [h \in Handlers |-> 0]

InFlight(n) == {k \in DOMAIN inv[n].tried : inv[n].tried[k].kind = "pending"}

C15_EveryAttemptUsesPoolKey ==
  \A n \in Invocations :
    /\ \A k \in DOMAIN inv[n].tried :
         /\ inv[n].tried[k].pos \in 0..(PoolSize(n) - 1)
         /\ inv[n].tried[k].key = apiKeys[inv[n].h][inv[n].tried[k].pos + 1]
         /\ inv[n].tried[k].key \notin {Null, Undefined, <<>>}
    /\ inv[n].loop => Calls(n) = inv[n].i + 1 /\ inv[n].totalKeys = PoolSize(n)
    /\ inv[n].pc = "awaiting" => inv[n].apiKey = inv[n].tried[Calls(n)].key

\* two invocations of generate interleave on a pool of three: one awaits its
\* third call, made with key "a" like its first, while the other awaits its
\* first call, made with key "c"
C15_Witness ==
  \E n, m \in Invocations :
    /\ inv[n].h = "generate" /\ inv[m].h = "generate" /\ PoolSize(n) = 3
    /\ inv[n].pc = "awaiting" /\ Calls(n) = 3 /\ inv[n].i = 2
    /\ inv[n].tried[1].key = <<"a">> /\ inv[n].tried[2].key = <<"b">>
    /\ inv[n].tried[3].key = <<"a">>
    /\ inv[m].pc = "awaiting" /\ Calls(m) = 1 /\ inv[m].tried[1].key = <<"c">>

Attempting(n) == inv[n].pc = "awaiting"

Overlap(h) ==
  \E n, m \in Invocations :
    n # m /\ inv[n].h = h /\ inv[m].h = h /\ Attempting(n) /\ Attempting(m)

\* a key is handed out twice in a row, so that the key after it is skipped
Collision(h) ==
  /\ Len(apiKeys[h]) >= 2
  /\ \E k \in 1..(Len(handedOut[h]) - 1) :
       /\ handedOut[h][k + 1] = handedOut[h][k]
       /\ handedOut[h][k + 1] # (handedOut[h][k] + 1) % Len(apiKeys[h])

Abandoned(n) == inv[n].abandonedAt > 0

\* C18: when the caller gives up a request, nothing but that fact changes: the
\* call in flight stays in flight, and when it settles the invocation goes on
\* as any other does: after an error its handler retries and with keys left it
\* takes the key at the cursor, advances the cursor by one and makes the next
\* call; otherwise it ends, with exactly one response, and leaves the cursor
\* alone.
C18_AbandonedInvocationRunsOn ==
  /\ [](\A n \in Invocations :
          Abandoned(n)
            => /\ InFlight(n) = (IF Attempting(n) THEN {Calls(n)} ELSE {})
               /\ Attempting(n) \/ (Terminal(n) /\ Len(inv[n].sent) = 1)
               /\ inv[n].abandonedAt \in 1..Calls(n))
  /\ [][\A n \in Invocations :
          LET h == inv[n].h
              N == PoolSize(n)
          IN /\ ~Abandoned(n) /\ Abandoned(n)'
                  => /\ inv'[n] = [inv[n] EXCEPT !.abandonedAt = Calls(n)]
                     /\ Attempting(n)
                     /\ UNCHANGED <<currentKeyIndex, upstreamCalls, handedOut>>
             /\ Abandoned(n) /\ inv'[n] # inv[n]
                  => IF inv'[n].tried[Calls(n)].kind \in Retried(h) /\ Calls(n) < N
                     THEN /\ Attempting(n)' /\ Len(inv'[n].tried) = Calls(n) + 1
                          /\ inv'[n].tried[Calls(n) + 1].pos = currentKeyIndex[h]
                          /\ inv'[n].tried[Calls(n) + 1].key = apiKeys[h][currentKeyIndex[h] + 1]
                          /\ currentKeyIndex'[h] = (currentKeyIndex[h] + 1) % N
                          /\ upstreamCalls'[h] = upstreamCalls[h] + 1
                     ELSE /\ Terminal(n)' /\ Len(inv'[n].sent) = 1
                          /\ Len(inv'[n].tried) = Calls(n)
                          /\ inv'[n].tried[Calls(n)].kind # "pending"
                          /\ UNCHANGED <<currentKeyIndex, upstreamCalls>>]_vars

\* a generate request given up during its first call went on to a second and
\* a third call and ended with the image
C18_Witness ==
  \E n \in Invocations :
    /\ inv[n].h = "generate" /\ inv[n].abandonedAt = 1 /\ Calls(n) = 3
    /\ Terminal(n) /\ Status(n) = 200
    /\ inv[n].sent[1].body = ImageBody("img1", "image/png")

(***************************************************************************)
(* Scenarios of requests served one after another (RoundSpec)              *)
(***************************************************************************)
Kinds(r) == [k \in DOMAIN r.tried |-> r.tried[k].kind]
Keys(r) == [k \in DOMAIN r.tried |-> r.tried[k].key]

\* C19: with the pool a, b, c and no concurrent caller, an invocation that
\* starts with the cursor at 0 and whose calls end rate-limited, rate-limited,
\* successful has called with a, then b, then c, answers 200 with the payload
\* of the third call, and leaves the cursor at 0.
C19_ThreeKeyScenario ==
  [][\A n \in DOMAIN inv :
       LET h == inv[n].h
       IN /\ apiKeys[h] = <<<<"a">>, <<"b">>, <<"c">>>>
          /\ Attempting(n) /\ Terminal(n)'
          /\ inv[n].tried[1].pos = 0
          /\ Kinds(inv'[n]) = <<"rateLimit", "rateLimit", "payload">>
          => /\ Keys(inv'[n]) = <<<<"a">>, <<"b">>, <<"c">>>>
             /\ inv'[n].sent =
                  <<[status |-> 200,
                     body |-> IF h = "generate"
                              THEN ImageBody(UpstreamImage(inv'[n].received).data,
                                             UpstreamImage(inv'[n].received).mimeType)
                              ELSE DescriptionBody(inv'[n].received.text)]>>
             /\ currentKeyIndex'[h] = 0
             /\ upstreamCalls'[h] = upstreamCalls[h]]_vars

\* the scenario has run for generate: first invocation, keys a, b, c, the
\* second image returned, cursor back at 0
C19_Witness ==
  /\ apiKeys["generate"] = <<<<"a">>, <<"b">>, <<"c">>>>
  /\ inv[1].h = "generate" /\ Terminal(1)
  /\ Kinds(inv[1]) = <<"rateLimit", "rateLimit", "payload">>
  /\ Keys(inv[1]) = <<<<"a">>, <<"b">>, <<"c">>>>
  /\ inv[1].sent = <<[status |-> 200, body |-> ImageBody("img2", "image/jpeg")]>>
  /\ currentKeyIndex["generate"] = 0 /\ inv[2].pc = "idle"

\* The started invocations of handler h, and the runs of N consecutive ones
\* among them that each failed once with a rate-limit error and then succeeded.
Started(h) == {n \in DOMAIN inv : inv[n].pc # "idle" /\ inv[n].h = h}

FailOnceRuns(h) ==
  {W \in SUBSET Started(h) :
     /\ W # {} /\ Cardinality(W) = Len(apiKeys[h])
     /\ \A n \in W : Terminal(n) /\ Kinds(inv[n]) = <<"rateLimit", "payload">>
     /\ \A n, m \in W : \A x \in Started(h) : n < x /\ x < m => x \in W}

\* the j-th invocation of the run
Nth(W, j) == CHOOSE n \in W : Cardinality({m \in W : m < n}) = j - 1

\* the positions and keys of the 2 * |W| calls of the run, in the order made
RunPositions(W) ==
  [k \in 1..(2 * Cardinality(W)) |->
     inv[Nth(W, 1 + ((k - 1) \div 2))].tried[1 + ((k - 1) % 2)].pos]
RunKeys(W) ==
  [k \in 1..(2 * Cardinality(W)) |->
     inv[Nth(W, 1 + ((k - 1) \div 2))].tried[1 + ((k - 1) % 2)].key]

\* C20 (as stated): N consecutive invocations served one after another on a
\* pool of N, each failing once with a rate-limit error before it succeeds,
\* call with every key exactly once, in pool order from the position the
\* cursor had at the start.
C20_FailOnceRunVisitsEachKeyOnce ==
  \A h \in Handlers : \A W \in FailOnceRuns(h) :
    LET N == Len(apiKeys[h])
        c == inv[Nth(W, 1)].tried[1].pos
    IN /\ \A p \in 0..(N - 1) :
            Cardinality({k \in DOMAIN RunPositions(W) : RunPositions(W)[k] = p}) = 1
       /\ \A k \in DOMAIN RunPositions(W) : RunPositions(W)[k] = (c + k - 1) % N

\* C20 (amended): such a run makes 2N calls; the k-th call uses the key at
\* position (c + k - 1) mod N, where c is the cursor at the start, so the run
\* goes through the pool in order twice and calls with every key exactly
\* twice; while no later request has arrived the cursor is back at c.
C20_FailOnceRunVisitsEachKeyTwice ==
  \A h \in Handlers : \A W \in FailOnceRuns(h) :
    LET N == Len(apiKeys[h])
        c == inv[Nth(W, 1)].tried[1].pos
    IN /\ DOMAIN RunPositions(W) = 1..(2 * N)
       /\ \A k \in DOMAIN RunPositions(W) :
            /\ RunPositions(W)[k] = (c + k - 1) % N
            /\ RunKeys(W)[k] = apiKeys[h][RunPositions(W)[k] + 1]
       /\ \A p \in 0..(N - 1) :
            Cardinality({k \in DOMAIN RunPositions(W) : RunPositions(W)[k] = p}) = 2
       /\ (\A x \in Started(h) : \E n \in W : x <= n) => currentKeyIndex[h] = c

\* on the pool a, b a first generate request succeeded at once, leaving the
\* cursor at 1; the next two each failed once and succeeded: calls with b, a,
\* b, a
C20_Witness ==
  /\ apiKeys["generate"] = <<<<"a">>, <<"b">>>>
  /\ Started("generate") = {1, 2, 3}
  /\ Kinds(inv[1]) = <<"payload">>
  /\ {2, 3} \in FailOnceRuns("generate")
  /\ RunKeys({2, 3}) = <<<<"b">>, <<"a">>, <<"b">>, <<"a">>>>
  /\ currentKeyIndex["generate"] = 1

(***************************************************************************)
(* The pool and the configuration it is built from (LoadSpec)              *)
(***************************************************************************)
\* The entries of a configuration string: an entry starts after position lo,
\* which is 0 or the position of a comma, and ends before the next comma or
\* the end of the string.
EntryStarts(s) == {0} \cup {k \in 1..Len(s) : s[k] = ","}
EntryEnd(s, lo) ==
  IF \E k \in (lo + 1)..Len(s) : s[k] = ","
  THEN CHOOSE k \in (lo + 1)..Len(s) : s[k] = "," /\ \A j \in (lo + 1)..(k - 1) : s[j] # ","
  ELSE Len(s) + 1
Ink(s, lo) == {k \in (lo + 1)..(EntryEnd(s, lo) - 1) : s[k] \notin {" ", "\t", "\n"}}
NonBlankStarts(s) == {lo \in EntryStarts(s) : Ink(s, lo) # {}}
Least(S) == CHOOSE x \in S : \A y \in S : x <= y
Greatest(S) == CHOOSE x \in S : \A y \in S : y <= x
\* the j-th non-blank entry without the white space around it
Entry(s, j) ==
  LET lo == CHOOSE x \in NonBlankStarts(s) :
              Cardinality({y \in NonBlankStarts(s) : y < x}) = j - 1
  IN SubSeq(s, Least(Ink(s, lo)), Greatest(Ink(s, lo)))

\* C21: the pool of each handler holds the non-blank entries of the
\* configuration value, in their order and without the white space around
\* them; no pool element is empty or white space only; the pool is empty
\* exactly when the value has no non-blank entry; and no step of a handler
\* changes the pool.
C21_PoolBuiltOnceFromConfiguration ==
  /\ [](\A h \in Handlers :
          LET s == PoolSource(env)
              pool == apiKeys[h]
          IN /\ Len(pool) = Cardinality(NonBlankStarts(s))
             /\ \A j \in DOMAIN pool :
                  /\ pool[j] = Entry(s, j)
                  /\ pool[j] # <<>>
                  /\ \E k \in DOMAIN pool[j] : pool[j][k] \notin {" ", "\t", "\n"}
                  /\ \A k \in DOMAIN pool[j] : pool[j][k] # ","
             /\ pool = <<>> <=> \A k \in DOMAIN s : s[k] \in {",", " ", "\t", "\n"})
  /\ [][apiKeys' = apiKeys /\ env' = env]_vars

\* the value "a ,\tb" gave the pool a, b, and a request has called with both
C21_Witness ==
  /\ env.API_KEYS_POOL = EnvStr(<<"a", " ", ",", "\t", "b">>)
  /\ apiKeys["generate"] = <<<<"a">>, <<"b">>>>
  /\ upstreamCalls["generate"] = 2

\* C22: a describe invocation whose call returned an empty description on a
\* key that is not its last goes on to a call with the next key.
C22_EmptyDescriptionTriesNextKey ==
  \A n \in Invocations : \A k \in DOMAIN inv[n].tried :
    inv[n].h = "describe" /\ inv[n].tried[k].kind = "noText" /\ k < PoolSize(n)
      => Calls(n) >= k + 1

\* C23: a describe call that fails with an invalid-key/permission-denied or a
\* server error is followed by a call with the next key when it was not the
\* last of the loop, and answered 429 when it was; a generate call that fails
\* so is answered 500 at once.
C23_DescribeRetriesKeyAndServerErrors ==
  \A n \in Invocations : \A k \in DOMAIN inv[n].tried :
    inv[n].tried[k].kind \in {"invalidKey", "serverError"}
      => /\ inv[n].h = "describe" /\ k < PoolSize(n)
              => Calls(n) >= k + 1 /\ inv[n].tried[k + 1].pos \in 0..(PoolSize(n) - 1)
         /\ inv[n].h = "describe" /\ k = PoolSize(n)
              => ReturnedAt(n, k) /\ Status(n) = 429
         /\ inv[n].h = "generate" => ReturnedAt(n, k) /\ Status(n) = 500

\* describe answered 429 on a pool of two after a server error and an
\* invalid-key error, no call rate-limited; generate answered 500 after one
\* invalid-key error
C23_Witness ==
  \E n, m \in Invocations :
    /\ inv[n].h = "describe" /\ PoolSize(n) = 2 /\ Terminal(n) /\ Status(n) = 429
    /\ Kinds(inv[n]) = <<"serverError", "invalidKey">>
    /\ inv[m].h = "generate" /\ Terminal(m) /\ Status(m) = 500
    /\ Kinds(inv[m]) = <<"invalidKey">>

\* C24: a request is tested for its method first (405), then for the empty
\* pool (500), then for its fields (400), and only then enters the retry
\* loop; a request rejected by one of the three tests leaves the cursor and
\* the upstream alone.
C24_ChecksInFixedOrder ==
  [][\A n \in Invocations :
       inv[n].pc = "idle" /\ inv'[n].pc # "idle"
         => LET r == inv'[n]
                empty == Len(apiKeys[r.h]) = 0
            IN /\ r.method # "POST"
                    => r.sent[1].status = 405 /\ ~r.loop
               /\ r.method = "POST" /\ empty
                    => r.sent[1].status = 500 /\ ~r.loop
               /\ r.method = "POST" /\ ~empty /\ Incomplete(r.h, r.body)
                    => r.sent[1].status = 400 /\ ~r.loop
               /\ r.method = "POST" /\ ~empty /\ ~Incomplete(r.h, r.body)
                    => r.loop /\ r.pc = "awaiting" /\ r.sent = <<>>
               /\ ~r.loop
                    => /\ r.pc = "done" /\ Len(r.sent) = 1 /\ r.tried = <<>>
                       /\ UNCHANGED <<currentKeyIndex, upstreamCalls, handedOut>>]_vars

\* with an empty pool a GET without fields got 405 and a POST without fields
\* got 500, and no call was made
C24_Witness ==
  /\ apiKeys["generate"] = <<>>
  /\ Terminal(1) /\ inv[1].method = "GET" /\ Status(1) = 405
  /\ Terminal(2) /\ inv[2].method = "POST" /\ Status(2) = 500
  /\ \A n \in {1, 2} : inv[n].h = "generate" /\ Incomplete("generate", inv[n].body)
  /\ upstreamCalls["generate"] = 0

\* The number of calls of handler h made so far with the pool entry at
\* position p, over all invocations.
AttemptsWith(h, p) ==
  Cardinality({nk \in (DOMAIN inv) \X (1..MaxKeys) :
                 /\ inv[nk[1]].h = h /\ nk[2] \in DOMAIN inv[nk[1]].tried
                 /\ inv[nk[1]].tried[nk[2]].pos = p})

\* C25: in every reachable state and for each handler, the numbers of calls
\* made so far with any two entries of the pool differ by at most 1, however
\* the invocations interleave.
C25_AttemptsPerKeyDifferByAtMostOne ==
  \A h \in Handlers : \A p, q \in 0..(Len(apiKeys[h]) - 1) :
    /\ AttemptsWith(h, p) - AttemptsWith(h, q) <= 1
    /\ p <= q => AttemptsWith(h, p) >= AttemptsWith(h, q)

\* three generate invocations that all await a call on a pool of three have
\* made five calls between them: two with a, two with b, one with c
C25_Witness ==
  /\ Len(apiKeys["generate"]) = 3
  /\ \A n \in 1..3 : inv[n].h = "generate" /\ Attempting(n)
  /\ Calls(1) = 1 /\ Calls(2) = 2 /\ Calls(3) = 2
  /\ AttemptsWith("generate", 0) = 2 /\ AttemptsWith("generate", 1) = 2
  /\ AttemptsWith("generate", 2) = 1

Other(h) == CHOOSE g \in Handlers : g # h

\* C26: a step of an invocation of one handler never changes the cursor of
\* the other handler, and the first key an invocation is given is the one at
\* position (calls made so far by invocations of its own handler) mod N,
\* whatever the other handler has done.
C26_SeparateCursors ==
  [][\A n \in Invocations :
       inv'[n] # inv[n]
         => LET h == inv'[n].h
                N == Len(apiKeys[h])
            IN /\ currentKeyIndex'[Other(h)] = currentKeyIndex[Other(h)]
               /\ upstreamCalls'[Other(h)] = upstreamCalls[Other(h)]
               /\ inv[n].pc = "idle" /\ inv'[n].loop
                    => /\ inv'[n].tried[1].pos = upstreamCalls[h] % N
                       /\ inv'[n].tried[1].key = apiKeys[h][(upstreamCalls[h] % N) + 1]]_vars

\* describe has made two calls on a pool of three, then generate started and
\* was given the first key: the generate cursor is at 1, the describe cursor
\* at 2
C26_Witness ==
  /\ Len(apiKeys["generate"]) = 3
  /\ inv[1].h = "describe" /\ Calls(1) = 2
  /\ inv[2].h = "generate" /\ Calls(2) = 1 /\ inv[2].tried[1].key = <<"a">>
  /\ currentKeyIndex = [generate |-> 1, describe |-> 2]

\* C27: API_KEY is the source of the pool only when API_KEYS_POOL is unset or
\* the empty string.  When API_KEYS_POOL is a non-empty string without a
\* non-blank entry the pool is empty and every POST request is answered with
\* the configuration error, whatever API_KEY holds; when API_KEYS_POOL has a
\* non-blank entry the pool holds its entries and nothing else.
C27_FallbackOnlyWhenPoolVariableEmpty ==
  \A h \in Handlers :
    LET P == env.API_KEYS_POOL
        K == env.API_KEY
        pool == apiKeys[h]
    IN /\ (~P.set \/ P.val = <<>>)
            => pool = (IF K.set /\ K.val # <<>> THEN <<K.val>> ELSE <<>>)
       /\ P.set /\ P.val # <<>> /\ NonBlankStarts(P.val) = {}
            => /\ pool = <<>>
               /\ \A n \in DOMAIN inv :
                    inv[n].pc # "idle" /\ inv[n].h = h
                      => Terminal(n) /\ inv[n].sent = <<ConfigurationError>> /\ Calls(n) = 0
       /\ P.set /\ NonBlankStarts(P.val) # {}
            => /\ Len(pool) = Cardinality(NonBlankStarts(P.val))
               /\ \A j \in DOMAIN pool : pool[j] = Entry(P.val, j) /\ pool[j] # <<"z">>

\* API_KEYS_POOL is " , " and API_KEY is z: the pool is empty and a describe
\* request got the configuration error
C27_Witness ==
  /\ env = [API_KEYS_POOL |-> EnvStr(<<" ", ",", " ">>), API_KEY |-> EnvStr(<<"z">>)]
  /\ apiKeys["describe"] = <<>>
  /\ inv[1].h = "describe" /\ inv[1].sent = <<ConfigurationError>>

(***************************************************************************)
(* Browser client                                                          *)
(***************************************************************************)
\* the activation is past its validation and has not reached the end of finally
Running(run) == run.pc \notin {"idle", "done"}
\* the request of the activation is sent and its response is not read to the end
RequestInFlight(run) == run.pc \in {"fetching", "json", "errorJson"}
Finished(run) == run.pc = "done"

\* C28: every run of generateImage that passes validation has isLoading true
\* from before its request is sent, and on every outcome (success, backend
\* error, malformed response, timeout abort) it ends, with isLoading false
\* and no timer pending; the client never has two generate requests in
\* flight at once.  (That a describe request can be in flight together with
\* a generate request is the state C28_Witness.)
C28_GenerateRunsEndUnlocked ==
  /\ [](/\ \A r \in Runs : Running(generateImage[r]) => isLoading
        /\ \A r \in Runs : Finished(generateImage[r]) => generateImage[r].timer # "pending"
        /\ Cardinality({r \in Runs : RequestInFlight(generateImage[r])}) <= 1)
  /\ [][\A r \in Runs :
          Running(generateImage[r]) /\ Finished(generateImage'[r])
            => ~isLoading' /\ generateImage'[r].timer \in {"cleared", "fired"}]_vars
  /\ \A r \in Runs : Running(generateImage[r]) ~> (Finished(generateImage[r]) /\ ~isLoading)

\* One run ended by the timeout, the next one with its request in flight
\* together with a describe request.
C28_Witness ==
  /\ Finished(generateImage[1]) /\ generateImage[1].timer = "fired"
  /\ generateImage[2].pc = "fetching"
  /\ isLoading
  /\ \E d \in Runs : handleDescribe[d].pc = "fetching"

\* the text names the status 429 or the quota status
NamesRateLimit(text) ==
  \E k \in DOMAIN text : text[k] \in {"429", "RESOURCE_EXHAUSTED", "resource_exhausted"}

\* the step in which the activation throws the error of a non-OK response
\* whose body the backend wrote
GenerateAnswersNotOk(r) ==
  /\ generateImage[r].pc = "errorJson"
  /\ generateImage[r].response.json
  /\ Finished(generateImage'[r])
DescribeAnswersNotOk(r) ==
  /\ handleDescribe[r].pc = "errorJson"
  /\ handleDescribe[r].response.json
  /\ Finished(handleDescribe'[r])

InvalidResponseShown == <<"Pembuatan gagal:", "Server mengembalikan respons yang tidak valid.">>

\* C29 as stated: a backend response with status 429 from /api/generate or
\* /api/describe always shows the fixed rate-limit message, with no generated
\* image and no prompt change; any other non-OK status shows the backend's
\* error text.
C29_OtherStatusShowsBackendText ==
  [][\A r \in Runs :
       /\ GenerateAnswersNotOk(r) =>
            LET response == generateImage[r].response
            IN IF response.status = 429
               THEN error' = GenerateRateLimitText /\ generatedImage' = Null /\ prompt' = prompt
               ELSE error' = <<"Pembuatan gagal:">> \o response.body.error
       /\ DescribeAnswersNotOk(r) =>
            LET response == handleDescribe[r].response
            IN IF response.status = 429
               THEN /\ error' = DescribeRateLimitText
                    /\ generatedImage' = generatedImage /\ prompt' = prompt
               ELSE error' = <<"Deskripsi gagal:">> \o response.body.error]_vars

\* C29, amended: a backend response with status 429 always shows the fixed
\* rate-limit message, with no generated image and no prompt change; any
\* other non-OK status shows the backend's error text, unless that text
\* itself names 429 or RESOURCE_EXHAUSTED, in which case the fixed rate-limit
\* message is shown as well, or the 60 s timer of generateImage fired while
\* the error body was read, in which case the invalid-response text may be
\* shown.
C29_OtherStatusShowsUnmarkedBackendText ==
  [][\A r \in Runs :
       /\ GenerateAnswersNotOk(r) =>
            LET response == generateImage[r].response
            IN /\ generatedImage' = Null /\ prompt' = prompt
               /\ IF response.status = 429
                  THEN error' = GenerateRateLimitText
                  ELSE \/ /\ NamesRateLimit(response.body.error)
                          /\ error' = GenerateRateLimitText
                       \/ /\ ~NamesRateLimit(response.body.error)
                          /\ error' = <<"Pembuatan gagal:">> \o response.body.error
                       \/ /\ generateImage[r].aborted
                          /\ error' = InvalidResponseShown
       /\ DescribeAnswersNotOk(r) =>
            LET response == handleDescribe[r].response
            IN /\ generatedImage' = generatedImage /\ prompt' = prompt
               /\ IF response.status = 429 \/ NamesRateLimit(response.body.error)
                  THEN error' = DescribeRateLimitText
                  ELSE error' = <<"Deskripsi gagal:">> \o response.body.error]_vars

\* generateImage ended with the fixed rate-limit message on show while a
\* describe request has been answered 429 and reads the body.
C29_Witness ==
  /\ Finished(generateImage[1])
  /\ error = GenerateRateLimitText
  /\ generatedImage = Null
  /\ handleDescribe[1].pc = "errorJson"
  /\ handleDescribe[1].response.status = 429
  /\ handleDescribe[1].response.json

====
